---- MODULE Spec2Model ----
(***************************************************************************)
(* pxsort: one sort pass of an RGB8 image (src/src/sort.rs), the score     *)
(* functions that key it (src/src/extractor.rs) and the command-line       *)
(* value parsers that build its options (src/src/cli.rs).                  *)
(*                                                                         *)
(* A pass is modelled as the code runs it: the parallel for_each over the  *)
(* outer indices (one worker per line, freely interleaved), the mpsc       *)
(* channel the workers send to, and, after for_each has returned, the      *)
(* single collector thread that drains the channel and writes every line   *)
(* back.  Sequences are 1-based here; the code's 0-based index i is        *)
(* element i + 1.                                                          *)
(***************************************************************************)
EXTENDS Integers, Sequences, FiniteSets, TLC

(* ---------------------------- bounds ----------------------------------- *)
\* Pixels of a line, lines of an image, pixels of an image, the largest
\* --interval and the largest --discretize.
MaxInner == 3
MaxOuter == 2
MaxPixels == 4
MaxInterval == 3
MaxDiscretize == 2
\* The distance between the channel values the keyed pixels are drawn from.
ChannelStride == 15

(* ------------------------- small helpers ------------------------------- *)
Min(a, b) == IF a < b THEN a ELSE b
Max(a, b) == IF a > b THEN a ELSE b

\* Option<T>: None is the empty sequence, Some(v) the one-element sequence.
None == <<>>
Some(v) == <<v>>
unwrap_or(opt, default) == IF opt = None THEN default ELSE opt[1]

\* `as u8` on a non-negative float: truncation, saturating at 255.
as_u8(n) == IF n < 0 THEN 0 ELSE IF n > 255 THEN 255 ELSE n

(* ----------------------------- pixels ---------------------------------- *)
\* The pixels the images are drawn from.  Under the five extractors the two
\* are ordered either way or tie: luma 29/30 < 157, chroma 0 < 100,
\* brightness 30 > 22, saturation 0 = 0, hue 0 = 0.
Palette == { <<30, 30, 30>>, <<200, 150, 100>> }

Max3(p) == Max(p[1], Max(p[2], p[3]))
Min3(p) == Min(p[1], Min(p[2], p[3]))

(* ------------------------- cli.rs: arguments --------------------------- *)
WalkPath == {"Horizontal", "Vertical"}
SortingAlgorithm == {"Luma", "Chroma", "Saturation", "Hue", "Brightness"}

\* The names a caller may put after --direction.  Only the first two are
\* values of WalkPath.
DirectionNames == {"horizontal", "vertical", "concentric", "diagonal"}

\* WalkPath_from_str with an arm too many: a name that is no variant is
\* taken for Horizontal.
WalkPath_from_str_lenient(name) ==
    CASE name = "vertical" -> Some("Vertical")
      [] OTHER -> Some("Horizontal")

\* #[derive(ValueEnum)] on WalkPath: the value parser of --direction.
WalkPath_from_str(name) ==
    CASE name = "horizontal" -> Some("Horizontal")
      [] name = "vertical" -> Some("Vertical")
      [] OTHER -> None

\* Value parser of --interval: Ok(value) for value # 0, an error otherwise.
no_negative_values(value) == IF value # 0 THEN Some(value) ELSE None

\* Coefficients in units of 1/10000.
Coefficients_luma == [red |-> 2126, green |-> 7152, blue |-> 722]
Coefficients_hue == [red |-> 0, green |-> 20000, blue |-> 40000]
Coefficients_zero == [red |-> 0, green |-> 0, blue |-> 0]

\* impl From<&Cli> for Coefficients, with no --coefficients given.
Coefficients_from(by) ==
    CASE by = "Luma" -> Coefficients_luma
      [] by = "Hue" -> Coefficients_hue
      [] OTHER -> Coefficients_zero

(* ------------------- extractor.rs: score functions --------------------- *)
\* One channel of update_pixel: scaled by its coefficient when that is not 0.
update_channel(value, coefficient) ==
    IF coefficient # 0 THEN as_u8((value * coefficient) \div 10000) ELSE value

update_pixel(pixel, opts) ==
    << update_channel(pixel[1], opts.coefficients.red),
       update_channel(pixel[2], opts.coefficients.green),
       update_channel(pixel[3], opts.coefficients.blue) >>

\* The f32 sum of the three products, truncated.  The products are summed
\* exactly here; on the pixels of Palette the f32 sum truncates to the same
\* integer.
luma(pixel, opts) ==
    as_u8((opts.coefficients.red * pixel[1]
           + opts.coefficients.green * pixel[2]
           + opts.coefficients.blue * pixel[3]) \div 10000)

\* u8 addition that stops at 255 instead of wrapping.
saturating_add(a, b) == Min(a + b, 255)

\* u8::wrapping_add and u8::wrapping_div.
wrapping_add(a, b) == (a + b) % 256
wrapping_div(a, b) == a \div b

\* max.wrapping_add(min).wrapping_div(2) on u8.
brightness(pixel, opts) ==
    LET p == update_pixel(pixel, opts)
    IN  wrapping_div(wrapping_add(Max3(p), Min3(p)), 2)

\* max.wrapping_sub(min) on u8.
chroma(pixel, opts) ==
    LET p == update_pixel(pixel, opts)
    IN  (Max3(p) - Min3(p)) % 256

saturation(pixel, opts) ==
    LET p == update_pixel(pixel, opts)
    IN  IF Max3(p) # 0 THEN ((Max3(p) - Min3(p)) % 256) \div Max3(p) ELSE 0

\* The first match arm, `r if r == max`, binds r to max and so is always
\* taken: hue is (coefficients.red + (green - blue) / diff) * 60, plus 360
\* when negative, with green = g / 255 and blue = b / 255 but diff = max - min
\* in channel units.  Computed as the fraction num / den.
hue(pixel, opts) ==
    IF Max3(pixel) = Min3(pixel) THEN 0
    ELSE LET diff == Max3(pixel) - Min3(pixel)
             den == 10000 * 255 * diff
             num == 60 * (opts.coefficients.red * 255 * diff
                          + 10000 * (pixel[2] - pixel[3]))
             pos == IF num < 0 THEN num + 360 * den ELSE num
         IN  as_u8(pos \div den)

\* SortingAlgorithm::into_rgb_sorter applied to a pixel: the score key.
sorter(pixel, opts) ==
    CASE opts.by = "Luma" -> luma(pixel, opts)
      [] opts.by = "Chroma" -> chroma(pixel, opts)
      [] opts.by = "Saturation" -> saturation(pixel, opts)
      [] opts.by = "Hue" -> hue(pixel, opts)
      [] opts.by = "Brightness" -> brightness(pixel, opts)

(* --------------------- sort.rs: the pure parts -------------------------- *)
\* (outer_limit, inner_limit) of a width x height image.
outer_limit(direction, w, h) == IF direction = "Horizontal" THEN h ELSE w
inner_limit(direction, w, h) == IF direction = "Horizontal" THEN w ELSE h

get_pixel(img, x, y) == img[<<x, y>>]
put_pixel(img, x, y, pixel) == [img EXCEPT ![<<x, y>>] = pixel]

\* read_index wrapping around the line instead of clamping at its end.
read_index_wrapping(i, limit) == i % limit

\* The clamp of a read index.
read_index(i, limit) == Min(i, limit - 1)

\* The pixel a worker reads for inner index i of line outer.
read_pixel(img, direction, i, outer, limit) ==
    IF direction = "Horizontal"
    THEN get_pixel(img, read_index(i, limit), outer)
    ELSE get_pixel(img, outer, read_index(i, limit))

\* (0..inner_limit).step_by(interval): the start indices, in order.
step_starts(limit, interval) ==
    [n \in 1..((limit + interval - 1) \div interval) |-> (n - 1) * interval]

\* The block gathered at start index inner: (inner..inner + discretize).
gather_block(img, direction, inner, outer, limit, discretize) ==
    [j \in 1..discretize |->
        read_pixel(img, direction, inner + (j - 1), outer, limit)]

\* All the blocks of line outer.
gather_line(img, direction, outer, limit, interval, discretize) ==
    LET starts == step_starts(limit, interval)
    IN  [n \in 1..Len(starts) |->
            gather_block(img, direction, starts[n], outer, limit, discretize)]

Reverse(s) == [i \in 1..Len(s) |-> s[Len(s) + 1 - i]]

\* Every rearrangement of a block.
Rearrangements(block) ==
    { [i \in 1..Len(block) |-> block[p[i]]] : p \in Permutations(1..Len(block)) }

IsAscending(block, opts) ==
    \A i \in 1..(Len(block) - 1) : sorter(block[i], opts) <= sorter(block[i + 1], opts)

IsDescending(block, opts) ==
    \A i \in 1..(Len(block) - 1) : sorter(block[i], opts) >= sorter(block[i + 1], opts)

\* block.shuffle(&mut thread_rng()): any rearrangement.
shuffle_block(block) == Rearrangements(block)

\* block.par_sort_unstable_by_key(sorter): ascending by key, equal keys in
\* any order.
sort_unstable_by_key(block, opts) ==
    { b \in Rearrangements(block) : IsAscending(b, opts) }

\* order_block without the second reverse of lines 68-70.
order_block_no_second_reverse(block, opts) ==
    IF opts.reverse
    THEN sort_unstable_by_key(Reverse(block), opts)
    ELSE sort_unstable_by_key(block, opts)

\* The results of the ordering step on one block (lines 66-76).
order_block(block, opts) ==
    IF opts.reverse
    THEN { Reverse(b) : b \in sort_unstable_by_key(Reverse(block), opts) }
    ELSE sort_unstable_by_key(block, opts)

\* pixels.par_iter_mut().for_each(shuffle) (lines 61-63): the lines that
\* shuffling every block can give.
RECURSIVE shuffle_blocks(_)
shuffle_blocks(blocks) ==
    IF blocks = <<>> THEN { <<>> }
    ELSE { Append(front, b) :
             front \in shuffle_blocks(SubSeq(blocks, 1, Len(blocks) - 1)),
             b \in shuffle_block(blocks[Len(blocks)]) }

\* pixels.par_iter_mut().for_each(order) (lines 66-76): the lines that
\* ordering every block can give.
RECURSIVE order_blocks(_, _)
order_blocks(blocks, opts) ==
    IF blocks = <<>> THEN { <<>> }
    ELSE { Append(front, b) :
             front \in order_blocks(SubSeq(blocks, 1, Len(blocks) - 1), opts),
             b \in order_block(blocks[Len(blocks)], opts) }

\* sorted_blocks.concat()
RECURSIVE concat(_)
concat(blocks) ==
    IF blocks = <<>> THEN <<>>
    ELSE concat(SubSeq(blocks, 1, Len(blocks) - 1)) \o blocks[Len(blocks)]

\* write_index wrapping around the line instead of clamping at its end.
write_index_wrapping(i, limit) == i % limit

\* The clamp of a write index.
write_index(i, limit) == Min(i, limit - 1)

\* write_element addressing the first line whatever the outer index is.
write_element_first_line(img, direction, i, outer, limit, pixel) ==
    IF direction = "Horizontal"
    THEN put_pixel(img, write_index(i, limit), 0, pixel)
    ELSE put_pixel(img, 0, write_index(i, limit), pixel)

\* One put_pixel of the write-back: element i (0-based) of line outer.
write_element(img, direction, i, outer, limit, pixel) ==
    IF direction = "Horizontal"
    THEN put_pixel(img, write_index(i, limit), outer, pixel)
    ELSE put_pixel(img, outer, write_index(i, limit), pixel)

\* The for loop of the write-back over sorted, in increasing i.
RECURSIVE write_line(_, _, _, _, _)
write_line(img, direction, outer, limit, sorted) ==
    IF sorted = <<>> THEN img
    ELSE LET n == Len(sorted)
         IN  write_element(
                 write_line(img, direction, outer, limit, SubSeq(sorted, 1, n - 1)),
                 direction, n - 1, outer, limit, sorted[n])

(* ------------------------------ state ---------------------------------- *)
VARIABLES
    phase,      \* where the run is: "Start", "Rejected", "Idle", "Dispatched",
                \* "Collecting", "Writing", "Done", "Aborted"
    args,       \* what the caller asks for (direction by name)
    error,      \* Option: the error the argument parser ended with
    options,    \* Option<SortOptions>
    width,      \* image.dimensions()
    height,
    image,      \* the RgbImage, [<<x, y>> -> pixel]
    original,   \* the image as it was before the pass
    wpc,        \* per outer index: "idle", "gathered", "shuffled", "sorted",
                \* "sent", "panicked"
    step,       \* per outer index: the worker's local `interval`
    gathered,   \* per outer index: the blocks as gathered (lines 47-58)
    pixels,     \* per outer index: the worker's local `pixels`
    chan,       \* the mpsc channel: messages <<outer, blocks>> in arrival order
    received,   \* the collector's Vec, rx.iter().collect_vec()
    written,    \* how many elements of received are written back
    rgb,        \* the pixel handed to an extractor
    key         \* Option: the key the extractor returned for rgb

vars == << phase, args, error, options, width, height, image, original,
           wpc, step, gathered, pixels, chan, received, written, rgb, key >>

inputVars == << args, width, height, original, rgb, key >>
workerVars == << wpc, step, gathered, pixels >>

\* The values of options.progressive_amount.  Cli has no such argument, so
\* options built from it hold None.
ProgressiveAmounts == { None }

\* The extractors the passes are keyed by.  On Palette they give the three
\* orders two pixels can have; chroma orders it as luma does and hue ties it
\* as saturation does.
Extractors == {"Luma", "Saturation", "Brightness"}

Args ==
    [ by : Extractors,
      interval : 0..MaxInterval,
      reverse : BOOLEAN,
      discretize : 1..MaxDiscretize,
      direction : DirectionNames,
      progressive_amount : ProgressiveAmounts,
      shuffle : BOOLEAN ]

Coords(w, h) == (0..(w - 1)) \X (0..(h - 1))

\* The options of the pass once they exist.
opts == options[1]
OuterLimit == outer_limit(opts.direction, width, height)
InnerLimit == inner_limit(opts.direction, width, height)
Outers == 0..(OuterLimit - 1)

\* A request and an image of at most MaxPixels pixels, with lines of at most
\* MaxInner pixels and at most MaxOuter of them in the direction asked for.
Init ==
    /\ phase = "Start"
    /\ args \in Args
    /\ error = None
    /\ options = None
    /\ width \in 1..Max(MaxInner, MaxOuter)
    /\ height \in 1..Max(MaxInner, MaxOuter)
    /\ width * height <= MaxPixels
    /\ LET walk == IF args.direction = "vertical" THEN "Vertical" ELSE "Horizontal"
       IN  /\ inner_limit(walk, width, height) <= MaxInner
           /\ outer_limit(walk, width, height) <= MaxOuter
    /\ image \in [Coords(width, height) -> Palette]
    /\ original = image
    /\ wpc = <<>>
    /\ step = <<>>
    /\ gathered = <<>>
    /\ pixels = <<>>
    /\ chan = <<>>
    /\ received = <<>>
    /\ written = 0
    /\ rgb = <<0, 0, 0>>
    /\ key = None

(* ------------------------ building the options -------------------------- *)
\* The SortOptions built from arguments whose direction names a WalkPath.
SortOptions_from(a) ==
    [ by |-> a.by,
      interval |-> a.interval,
      reverse |-> a.reverse,
      coefficients |-> Coefficients_from(a.by),
      discretize |-> a.discretize,
      progressive_amount |-> a.progressive_amount,
      direction |-> WalkPath_from_str(a.direction)[1],
      shuffle |-> a.shuffle ]

\* The errors the value parsers of Cli raise on the arguments.
parse_errors(a) ==
    (IF WalkPath_from_str(a.direction) = None THEN {"InvalidValue"} ELSE {})
    \cup (IF no_negative_values(a.interval) = None
          THEN {"interval cannot be less than 1"} ELSE {})

\* Cli::parse() and From<Cli> for SortOptions: the options, or the first
\* error met (the arguments come in any order).
CliParse ==
    /\ phase = "Start"
    /\ IF parse_errors(args) = {}
       THEN /\ options' = Some(SortOptions_from(args))
            /\ phase' = "Idle"
            /\ error' = error
       ELSE /\ error' \in { Some(e) : e \in parse_errors(args) }
            /\ phase' = "Rejected"
            /\ options' = options
    /\ UNCHANGED << inputVars, image, workerVars, chan, received, written >>

\* A caller of the library fills in the public fields of SortOptions itself:
\* the direction is a WalkPath by type, the interval any usize.
BuildOptions ==
    /\ phase = "Start"
    /\ WalkPath_from_str(args.direction) # None
    /\ options' = Some(SortOptions_from(args))
    /\ phase' = "Idle"
    /\ UNCHANGED << inputVars, error, image, workerVars, chan, received, written >>

(* ------------------------- rgb8_pixel_sort ------------------------------ *)
\* sort_rgb8_pixels up to the start of for_each_with: the limits, the
\* channel, one job per outer index.
Dispatch ==
    /\ phase = "Idle"
    /\ phase' = "Dispatched"
    /\ wpc' = [o \in Outers |-> "idle"]
    /\ step' = [o \in Outers |-> 0]
    /\ gathered' = [o \in Outers |-> <<>>]
    /\ pixels' = [o \in Outers |-> <<>>]
    /\ chan' = <<>>
    /\ UNCHANGED << inputVars, error, options, image, received, written >>

\* The values `interval` (line 44) can take for the job of outer index o:
\* a choice c of 1..=options.interval plus prog_amount, at most
\* options.interval.  prog_amount starts at progressive_amount.unwrap_or(1)
\* in each split of the parallel iterator and, unless that is 1, has grown
\* by one for each job of the split up to this one.
worker_intervals(o) ==
    LET progressive == unwrap_or(opts.progressive_amount, 1)
        progs == IF progressive # 1
                 THEN { progressive + n : n \in 1..(o + 1) }
                 ELSE { progressive }
    IN  { Min(c + p, opts.interval) : c \in 1..opts.interval, p \in progs }

\* Lines 39-58 of one job: choose the interval (unwrap of None panics when
\* options.interval is 0), gather the blocks of the line.
WorkerGather(o) ==
    /\ phase = "Dispatched"
    /\ wpc[o] = "idle"
    /\ IF opts.interval = 0
       THEN /\ wpc' = [wpc EXCEPT ![o] = "panicked"]
            /\ UNCHANGED << step, gathered, pixels >>
       ELSE \E i \in worker_intervals(o) :
              LET blocks == gather_line(image, opts.direction, o, InnerLimit,
                                        i, opts.discretize)
              IN  /\ step' = [step EXCEPT ![o] = i]
                  /\ gathered' = [gathered EXCEPT ![o] = blocks]
                  /\ pixels' = [pixels EXCEPT ![o] = blocks]
                  /\ wpc' = [wpc EXCEPT ![o] = "gathered"]
    /\ UNCHANGED << phase, inputVars, error, options, image, chan, received, written >>

\* Lines 60-64: with options.shuffle every block is shuffled.
WorkerShuffle(o) ==
    /\ phase = "Dispatched"
    /\ wpc[o] = "gathered"
    /\ opts.shuffle
    /\ \E line \in shuffle_blocks(pixels[o]) :
          pixels' = [pixels EXCEPT ![o] = line]
    /\ wpc' = [wpc EXCEPT ![o] = "shuffled"]
    /\ UNCHANGED << phase, inputVars, error, options, image, step, gathered,
                    chan, received, written >>

\* Lines 66-76: every block is ordered by key, whatever options.shuffle is.
WorkerSort(o) ==
    /\ phase = "Dispatched"
    /\ wpc[o] = (IF opts.shuffle THEN "shuffled" ELSE "gathered")
    /\ \E line \in order_blocks(pixels[o], opts) :
          pixels' = [pixels EXCEPT ![o] = line]
    /\ wpc' = [wpc EXCEPT ![o] = "sorted"]
    /\ UNCHANGED << phase, inputVars, error, options, image, step, gathered,
                    chan, received, written >>

\* WorkerSend losing the message: the job ends without the send.
WorkerSend_lossy(o) ==
    /\ phase = "Dispatched"
    /\ wpc[o] = "sorted"
    /\ pixels' = [pixels EXCEPT ![o] = <<>>]
    /\ wpc' = [wpc EXCEPT ![o] = "sent"]
    /\ UNCHANGED << phase, inputVars, error, options, image, step, gathered,
                    chan, received, written >>

\* Line 78: tx.send((outer, pixels)); pixels is moved into the message.
WorkerSend(o) ==
    /\ phase = "Dispatched"
    /\ wpc[o] = "sorted"
    /\ chan' = Append(chan, << o, pixels[o] >>)
    /\ pixels' = [pixels EXCEPT ![o] = <<>>]
    /\ wpc' = [wpc EXCEPT ![o] = "sent"]
    /\ UNCHANGED << phase, inputVars, error, options, image, step, gathered,
                    received, written >>

\* Join not waiting for the jobs: the collector starts as soon as one job
\* has sent.
Join_early ==
    /\ phase = "Dispatched"
    /\ \E o \in Outers : wpc[o] = "sent"
    /\ phase' = "Collecting"
    /\ UNCHANGED << inputVars, error, options, image, workerVars, chan, received, written >>

\* for_each_with returns once every job has run; tx and its clones are
\* dropped.
Join ==
    /\ phase = "Dispatched"
    /\ \A o \in Outers : wpc[o] = "sent"
    /\ phase' = "Collecting"
    /\ UNCHANGED << inputVars, error, options, image, workerVars, chan, received, written >>

\* A panic of a job is resumed by for_each_with in the caller: the pass
\* unwinds, rx is dropped with what it holds.
Abort ==
    /\ phase = "Dispatched"
    /\ \A o \in Outers : wpc[o] \in {"sent", "panicked"}
    /\ \E o \in Outers : wpc[o] = "panicked"
    /\ phase' = "Aborted"
    /\ chan' = <<>>
    /\ UNCHANGED << inputVars, error, options, image, workerVars, received, written >>

\* rx.iter().collect_vec() in the collector thread: every sender is gone, so
\* the iterator ends after the last message.
Collect ==
    /\ phase = "Collecting"
    /\ received' = chan
    /\ chan' = <<>>
    /\ phase' = "Writing"
    /\ UNCHANGED << inputVars, error, options, image, workerVars, written >>

\* One turn of the collector's for_each (lines 89-96 and 107-114).
WriteBack ==
    /\ phase = "Writing"
    /\ written < Len(received)
    /\ LET msg == received[written + 1]
       IN  image' = write_line(image, opts.direction, msg[1], InnerLimit, concat(msg[2]))
    /\ written' = written + 1
    /\ UNCHANGED << phase, inputVars, error, options, workerVars, chan, received >>

\* The collector thread ends, the scope joins it, the pass returns.
Finish ==
    /\ phase = "Writing"
    /\ written = Len(received)
    /\ phase' = "Done"
    /\ UNCHANGED << inputVars, error, options, image, workerVars, chan, received, written >>

Next ==
    \/ CliParse
    \/ BuildOptions
    \/ Dispatch
    \/ \E o \in DOMAIN wpc : WorkerGather(o)
    \/ \E o \in DOMAIN wpc : WorkerShuffle(o)
    \/ \E o \in DOMAIN wpc : WorkerSort(o)
    \/ \E o \in DOMAIN wpc : WorkerSend(o)
    \/ Join
    \/ Abort
    \/ Collect
    \/ WriteBack
    \/ Finish

Spec == Init /\ [][Next]_vars

\* The pool runs every job it was given and the collector thread runs: a
\* step that can be taken is taken.
\* Whether a pass ends depends neither on the keys nor on the order within
\* a block: one extractor, no reverse.
FairInit == Init /\ args.by = "Brightness" /\ ~args.reverse

FairSpec == FairInit /\ [][Next]_vars /\ WF_vars(Next)

(* ------------------- one call of an extractor --------------------------- *)
\* The channel values of the keyed pixels.
Channels == { c \in 0..255 : c % ChannelStride = 0 } \cup {100, 200, 255}

\* The coefficients of the call: those of Coefficients::brightness(), all
\* zero, or --coefficients red=0.5.
KeyCoefficients == { Coefficients_zero, [red |-> 5000, green |-> 0, blue |-> 0] }

\* A pixel and the options of a pass keyed by brightness.
BrightInit ==
    /\ phase = "Keying"
    /\ args = [ by |-> "Brightness", interval |-> 1, reverse |-> FALSE,
                discretize |-> 1, direction |-> "horizontal",
                progressive_amount |-> None, shuffle |-> FALSE ]
    /\ error = None
    /\ \E c \in KeyCoefficients :
          options = Some([SortOptions_from(args) EXCEPT !.coefficients = c])
    /\ width = 1
    /\ height = 1
    /\ rgb \in Channels \X Channels \X Channels
    /\ image = [c \in Coords(1, 1) |-> rgb]
    /\ original = image
    /\ wpc = <<>>
    /\ step = <<>>
    /\ gathered = <<>>
    /\ pixels = <<>>
    /\ chan = <<>>
    /\ received = <<>>
    /\ written = 0
    /\ key = None

\* sorter(pixel, &options) with the brightness extractor.
KeyPixel ==
    /\ phase = "Keying"
    /\ key' = Some(brightness(rgb, opts))
    /\ phase' = "Keyed"
    /\ UNCHANGED << args, error, options, width, height, image, original,
                    workerVars, chan, received, written, rgb >>

BrightNext == KeyPixel

BrightSpec == BrightInit /\ [][BrightNext]_vars

(* ------------------------ what the claims read -------------------------- *)
\* How many coordinates of img hold pixel p.
PixelCount(img, p) == Cardinality({ c \in DOMAIN img : img[c] = p })

SameMultiset(img1, img2) ==
    \A p \in Palette : PixelCount(img1, p) = PixelCount(img2, p)

\* How often pixel p occurs in a block.
Occurrences(block, p) == Cardinality({ i \in 1..Len(block) : block[i] = p })

IsPermutationOf(a, b) ==
    /\ Len(a) = Len(b)
    /\ \A p \in Palette : Occurrences(a, p) = Occurrences(b, p)

\* The pixel of img at inner index i of line outer.
LinePixel(img, outer, i) ==
    IF opts.direction = "Horizontal" THEN img[<<i, outer>>] ELSE img[<<outer, i>>]

\* Every message sent so far, in arrival order.
Messages == chan \o received

\* The jobs that are past line 45 and have not sent yet.
Computing == { o \in DOMAIN wpc : wpc[o] \in {"gathered", "shuffled", "sorted"} }

(* ------------------------------- C1 ------------------------------------ *)
\* C1: after a pass with discretize = 1 and interval >= 1 the image holds
\* the same multiset of pixels as before the pass.
C1_PermutationInvariant ==
    (phase = "Done" /\ opts.discretize = 1 /\ opts.interval >= 1)
        => SameMultiset(image, original)

(* ------------------------------- C2 ------------------------------------ *)
\* C2: after a Horizontal pass with interval = 1, discretize = 1 and neither
\* reverse nor shuffle, every row is in non-decreasing key order from left
\* to right.
C2_RowsAscending ==
    (/\ phase = "Done"
     /\ opts.direction = "Horizontal"
     /\ opts.interval = 1
     /\ opts.discretize = 1
     /\ ~opts.reverse
     /\ ~opts.shuffle)
        => \A y \in 0..(height - 1) : \A x \in 0..(width - 2) :
              sorter(image[<<x, y>>], opts) <= sorter(image[<<x + 1, y>>], opts)

(* ------------------------------- C3 ------------------------------------ *)
UnsupportedNames == DirectionNames \ {"horizontal", "vertical"}

NothingProcessed ==
    /\ image = original
    /\ \A o \in DOMAIN wpc : wpc[o] = "idle"
    /\ Messages = <<>>
    /\ written = 0

C4_IntervalRejectedBeforeWorkers ==
    args.interval = 0 => NothingProcessed

(* ------------------------------- C5 ------------------------------------ *)
\* C5: with shuffle the ordering step leaves the shuffled blocks as the
\* shuffle made them.
C5_ShuffleSkipsOrdering ==
    [][ \A o \in DOMAIN wpc :
          (wpc[o] = "shuffled" /\ wpc'[o] = "sorted") => pixels'[o] = pixels[o] ]_vars

(* ------------------------------- C6 ------------------------------------ *)
\* C6: without shuffle every block of every message sent is a permutation
\* of the block gathered for it and is in key order: non-decreasing without
\* reverse, non-increasing with reverse.
C6_SentBlocksOrdered ==
    \A n \in 1..Len(Messages) :
        LET o == Messages[n][1]
            blocks == Messages[n][2]
        IN  ~opts.shuffle =>
              /\ Len(blocks) = Len(gathered[o])
              /\ \A b \in 1..Len(blocks) :
                    /\ IsPermutationOf(blocks[b], gathered[o][b])
                    /\ IF opts.reverse
                       THEN IsDescending(blocks[b], opts)
                       ELSE IsAscending(blocks[b], opts)

\* A message of a pass with reverse and without shuffle whose blocks are not
\* as they were gathered.
C6_Witness ==
    \E n \in 1..Len(Messages) :
        /\ ~opts.shuffle
        /\ opts.reverse
        /\ Messages[n][2] # gathered[Messages[n][1]]

(* ------------------------------- C7 ------------------------------------ *)
\* C7: once the message of line o is written back, inner position
\* j < inner_limit - 1 of line o holds element j of the concatenation of its
\* blocks (if there is one), and the last inner position holds the last
\* element whenever the concatenation has at least inner_limit elements.
C7_WriteBackClamped ==
    \A n \in 1..written :
        LET o == received[n][1]
            sorted == concat(received[n][2])
        IN  /\ \A j \in 0..(InnerLimit - 2) :
                  j < Len(sorted) => LinePixel(image, o, j) = sorted[j + 1]
            /\ Len(sorted) >= InnerLimit
                  => LinePixel(image, o, InnerLimit - 1) = sorted[Len(sorted)]

\* A line written back from more elements than it has positions, whose last
\* position holds the last element and not the first one clamped there.
C7_Witness ==
    \E n \in 1..written :
        LET o == received[n][1]
            sorted == concat(received[n][2])
        IN  /\ Len(sorted) > InnerLimit
            /\ sorted[Len(sorted)] # sorted[InnerLimit]
            /\ LinePixel(image, o, InnerLimit - 1) = sorted[Len(sorted)]

C9_WritesAfterWorkers ==
    /\ (image # original \/ written > 0)
          => /\ phase \in {"Writing", "Done"}
             /\ \A o \in DOMAIN wpc : wpc[o] = "sent"
    /\ (phase = "Dispatched" \/ Computing # {}) => image = original
    /\ (phase = "Aborted" \/ \E o \in DOMAIN wpc : wpc[o] = "panicked")
          => (image = original /\ written = 0)

\* The collector has changed the image, two jobs having sent before.
C9_Witness ==
    /\ phase = "Writing"
    /\ image # original
    /\ Len(received) >= 2

(* ------------------------------- C10 ----------------------------------- *)
\* Every outer index has exactly one message in the collector's Vec, and
\* all of them are written back.
OneMessagePerOuter ==
    /\ Len(received) = OuterLimit
    /\ \A o \in Outers :
          Cardinality({ n \in 1..Len(received) : received[n][1] = o }) = 1
    /\ written = Len(received)
    /\ chan = <<>>

LineWrittenAlone(o) ==
    IF \E n \in 1..written : received[n][1] = o
    THEN LET n == CHOOSE k \in 1..written : received[k][1] = o
         IN  write_line(original, opts.direction, o, InnerLimit, concat(received[n][2]))
    ELSE original

\* C11: whatever order the messages arrived in, every line of the image is
\* what the write-back of its own message alone makes of it: the write-back
\* of line o writes coordinates of line o only.
C11_ArrivalOrderIrrelevant ==
    phase \in {"Writing", "Done"} =>
        \A o \in Outers : \A i \in 0..(InnerLimit - 1) :
            LinePixel(image, o, i) = LinePixel(LineWrittenAlone(o), o, i)

\* A finished pass of two lines, both changed, whose messages arrived in
\* the order 1, 0.
C11_Witness ==
    /\ phase = "Done"
    /\ OuterLimit = 2
    /\ received[1][1] = 1
    /\ \A o \in Outers : \E i \in 0..(InnerLimit - 1) :
          LinePixel(image, o, i) # LinePixel(original, o, i)

(* ------------------------------- C12 ----------------------------------- *)
\* The largest and the smallest channel of a pixel.
Highest(p) == CHOOSE c \in {p[1], p[2], p[3]} : \A d \in {p[1], p[2], p[3]} : d <= c
Lowest(p) == CHOOSE c \in {p[1], p[2], p[3]} : \A d \in {p[1], p[2], p[3]} : c <= d

\* C12: with all coefficients zero the brightness key of (r, g, b) is
\* ((max + min) mod 256) div 2: a sum of 256 or more loses 256 before it is
\* halved, so the key is 128 less than half the sum.
C12_BrightnessWraps ==
    (phase = "Keyed" /\ opts.coefficients = Coefficients_zero) =>
        LET sum == Highest(rgb) + Lowest(rgb)
        IN  /\ key = Some((sum % 256) \div 2)
            /\ sum >= 256 => key = Some((sum \div 2) - 128)

\* The claim's example: max = 200 and min = 100 give 22.
C12_Witness ==
    /\ phase = "Keyed"
    /\ opts.coefficients = Coefficients_zero
    /\ rgb = <<200, 100, 100>>
    /\ key = Some(22)

====
